---- MODULE Spec2Model ----
(***************************************************************************)
(* extract_iframe.py: read sejm_dump.html as text (UTF-16-LE, falling back *)
(* to UTF-8 with errors ignored on a UnicodeError), print the length of    *)
(* the text, search it for the src of an iframe tag with one regular       *)
(* expression and print the capture, or a 500 character preview.           *)
(*                                                                         *)
(* Text is a sequence of code points, a file a sequence of bytes (0..255). *)
(***************************************************************************)
EXTENDS Integers, Sequences, FiniteSets, TLC

VARIABLES
    file,     \* sejm_dump.html on disk: [kind, bytes]
    pc,       \* the statement the interpreter is at
    fds,      \* the open handles: 1 is f of line 5, 2 is f of line 8
    exc,      \* the exception in flight, "none" when there is none
    content,  \* the variable content (Unbound before the Loader assigns it)
    match,    \* the variable match
    stdout,   \* what print has written, one entry for each call
    opened    \* the encodings open() was called with, in order

vars == <<file, pc, fds, exc, content, match, stdout, opened>>

----------------------------------------------------------------------------
(* Characters *)

\* The printable ASCII characters U+0020 .. U+005F and U+0061 .. U+007E.
Printable ==
    << " ", "!", "\"", "#", "$", "%", "&", "'", "(", ")", "*", "+", ",", "-", ".", "/",
       "0", "1", "2", "3", "4", "5", "6", "7", "8", "9", ":", ";", "<", "=", ">", "?",
       "@", "A", "B", "C", "D", "E", "F", "G", "H", "I", "J", "K", "L", "M", "N", "O",
       "P", "Q", "R", "S", "T", "U", "V", "W", "X", "Y", "Z", "[", "\\", "]", "^", "_" >>

PrintableLower ==
    << "a", "b", "c", "d", "e", "f", "g", "h", "i", "j", "k", "l", "m", "n", "o",
       "p", "q", "r", "s", "t", "u", "v", "w", "x", "y", "z", "{", "|", "}", "~" >>

\* The code point of a printable ASCII character.
Ord ==
    [c \in {Printable[i] : i \in 1..Len(Printable)}
            \cup {PrintableLower[i] : i \in 1..Len(PrintableLower)} |->
        IF \E i \in 1..Len(Printable) : Printable[i] = c
        THEN 31 + (CHOOSE i \in 1..Len(Printable) : Printable[i] = c)
        ELSE 96 + (CHOOSE i \in 1..Len(PrintableLower) : PrintableLower[i] = c)]

\* A string literal of the source, given as the tuple of its characters.
Str(t) == [i \in 1..Len(t) |-> Ord[t[i]]]

CR == 13   \* U+000D, "\r"
LF == 10   \* U+000A, "\n"

RECURSIVE Concat(_)
Concat(ss) == IF ss = <<>> THEN <<>> ELSE Head(ss) \o Concat(Tail(ss))

\* Piece(lo) \o ... \o Piece(hi), by halving the range.
RECURSIVE Join(_, _, _)
Join(Piece(_), lo, hi) ==
    IF lo > hi THEN <<>>
    ELSE IF lo = hi THEN Piece(lo)
    ELSE LET mid == (lo + hi) \div 2
         IN  Join(Piece, lo, mid) \o Join(Piece, mid + 1, hi)

----------------------------------------------------------------------------
(* The codecs behind f.read() *)

\* The 16-bit code units of a byte string, little-endian.
Units(b) == [i \in 1..(Len(b) \div 2) |-> b[2 * i - 1] + 256 * b[2 * i]]

IsHighSurrogate(u) == u >= 55296 /\ u <= 56319   \* D800..DBFF
IsLowSurrogate(u)  == u >= 56320 /\ u <= 57343   \* DC00..DFFF

\* The code units are well-formed UTF-16: a high surrogate is followed by a
\* low one and a low surrogate follows a high one.
Utf16Paired(u) ==
    \A i \in 1..Len(u) :
        /\ IsHighSurrogate(u[i]) => i < Len(u) /\ IsLowSurrogate(u[i + 1])
        /\ IsLowSurrogate(u[i]) => i > 1 /\ IsHighSurrogate(u[i - 1])

\* What code unit i of well-formed UTF-16 contributes to the text.
Utf16Piece(u, i) ==
    IF IsHighSurrogate(u[i])
    THEN <<65536 + (u[i] - 55296) * 1024 + (u[i + 1] - 56320)>>
    ELSE IF IsLowSurrogate(u[i]) THEN <<>>
    ELSE <<u[i]>>

\* bytes.decode('utf-16-le'), errors='strict': ok is FALSE where it raises
\* UnicodeDecodeError (an odd trailing byte is "truncated data", an unpaired
\* surrogate "illegal encoding", "illegal UTF-16 surrogate" or "unexpected
\* end of data").
DecodeUtf16le(b) ==
    LET u == Units(b)
    IN  IF Len(b) % 2 = 1 \/ ~Utf16Paired(u) THEN [ok |-> FALSE, text |-> <<>>]
        ELSE [ok |-> TRUE, text |-> Join(LAMBDA i : Utf16Piece(u, i), 1, Len(u))]

IsCont(x) == x >= 128 /\ x <= 191   \* 10xxxxxx

\* One step of the UTF-8 decoder at byte i: the bytes it consumes and the
\* code point they give (-1 where they are an error that 'ignore' drops).
Utf8Step(b, i) ==
    LET ch == b[i]
        left == Len(b) - i + 1
        c2 == b[i + 1]
        c3 == b[i + 2]
        c4 == b[i + 3]
        Bad(n) == [take |-> n, cp |-> -1]
    IN  IF ch < 128 THEN [take |-> 1, cp |-> ch]
        ELSE IF ch < 224 THEN
            IF ch < 194 THEN Bad(1)                       \* invalid start byte
            ELSE IF left < 2 THEN Bad(left)               \* unexpected end of data
            ELSE IF ~IsCont(c2) THEN Bad(1)               \* invalid continuation
            ELSE [take |-> 2, cp |-> (ch - 192) * 64 + (c2 - 128)]
        ELSE IF ch < 240 THEN
            IF left < 2 THEN Bad(left)
            ELSE IF ~IsCont(c2) \/ (ch = 224 /\ c2 < 160) \/ (ch = 237 /\ c2 >= 160)
                 THEN Bad(1)
            ELSE IF left < 3 THEN Bad(left)
            ELSE IF ~IsCont(c3) THEN Bad(2)
            ELSE [take |-> 3,
                  cp |-> (ch - 224) * 4096 + (c2 - 128) * 64 + (c3 - 128)]
        ELSE IF ch < 245 THEN
            IF left < 2 THEN Bad(left)
            ELSE IF ~IsCont(c2) \/ (ch = 240 /\ c2 < 144) \/ (ch = 244 /\ c2 >= 144)
                 THEN Bad(1)
            ELSE IF left < 3 THEN Bad(left)
            ELSE IF ~IsCont(c3) THEN Bad(2)
            ELSE IF left < 4 THEN Bad(left)
            ELSE IF ~IsCont(c4) THEN Bad(3)
            ELSE [take |-> 4,
                  cp |-> (ch - 240) * 262144 + (c2 - 128) * 4096
                         + (c3 - 128) * 64 + (c4 - 128)]
        ELSE Bad(1)                                       \* invalid start byte

\* The decoder takes a step at every byte that is not a continuation byte (a
\* step consumes, after its first byte, continuation bytes only), and at the
\* continuation bytes no sequence covers, which are invalid start bytes.
Utf8Covered(b, i) ==
    \E j \in (i - 3)..(i - 1) :
        /\ j >= 1
        /\ ~IsCont(b[j])
        /\ Utf8Step(b, j).cp >= 0
        /\ j + Utf8Step(b, j).take > i

\* What byte i contributes to the text under errors='ignore'.
Utf8Piece(b, i) ==
    IF IsCont(b[i]) \/ Utf8Step(b, i).cp < 0 THEN <<>> ELSE <<Utf8Step(b, i).cp>>

\* bytes.decode('utf-8', errors='ignore'): text is the result, which never
\* raises; ok tells whether the bytes were well-formed UTF-8 (nothing dropped).
DecodeUtf8Ignore(b) ==
    [ok |-> \A i \in 1..Len(b) :
                IF IsCont(b[i]) THEN Utf8Covered(b, i) ELSE Utf8Step(b, i).cp >= 0,
     text |-> Join(LAMBDA i : Utf8Piece(b, i), 1, Len(b))]

\* Universal newlines of a text-mode open(..., 'r'): \r\n and \r become \n.
NewlinePiece(t, i) ==
    IF t[i] = CR THEN <<LF>>
    ELSE IF t[i] = LF /\ i > 1 /\ t[i - 1] = CR THEN <<>>
    ELSE <<t[i]>>

TranslateNewlines(t) == Join(LAMBDA i : NewlinePiece(t, i), 1, Len(t))

\* str.encode of the two codecs, used to put a given text on disk.
Utf16Bytes(c) ==
    IF c < 65536 THEN <<c % 256, c \div 256>>
    ELSE LET v == c - 65536
             hi == 55296 + (v \div 1024)
             lo == 56320 + (v % 1024)
         IN  <<hi % 256, hi \div 256, lo % 256, lo \div 256>>

EncodeUtf16le(t) == Join(LAMBDA i : Utf16Bytes(t[i]), 1, Len(t))

Utf8Bytes(c) ==
    IF c < 128 THEN <<c>>
    ELSE IF c < 2048 THEN <<192 + (c \div 64), 128 + (c % 64)>>
    ELSE IF c < 65536
         THEN <<224 + (c \div 4096), 128 + ((c \div 64) % 64), 128 + (c % 64)>>
    ELSE <<240 + (c \div 262144), 128 + ((c \div 4096) % 64),
           128 + ((c \div 64) % 64), 128 + (c % 64)>>

EncodeUtf8(t) == Join(LAMBDA i : Utf8Bytes(t[i]), 1, Len(t))

----------------------------------------------------------------------------
(* re.search of line 12, under re.IGNORECASE. The pattern is, in order:    *)
(* the literal <iframe, any run of characters other than >, the literal    *)
(* src=, a quote character, the group (any run of characters other than    *)
(* the two quote characters), a quote character.                           *)

GT == Ord[">"]
Quotes == {Ord["\""], Ord["'"]}

\* Mutant of EqIgnoreCase: the search without re.IGNORECASE.
EqCaseSensitive(p, c) == c = p

\* A character of the text against a (lower-case) literal character of the
\* pattern under re.IGNORECASE: the two cases of an ASCII letter, and the
\* letters whose simple lower or upper case is that letter (U+0130 and
\* U+0131 for i, U+017F for s).
EqIgnoreCase(p, c) ==
    \/ c = p
    \/ p >= Ord["a"] /\ p <= Ord["z"] /\ c = p - 32
    \/ p = Ord["i"] /\ c \in {304, 305}
    \/ p = Ord["s"] /\ c = 383

\* The literal lit matches the text d at position p.
MatchLit(d, p, lit) ==
    /\ p + Len(lit) - 1 <= Len(d)
    /\ \A k \in 1..Len(lit) : EqIgnoreCase(lit[k], d[p + k - 1])

TagLit == Str(<<"<", "i", "f", "r", "a", "m", "e">>)
SrcLit == Str(<<"s", "r", "c", "=">>)

NoneMatch == [found |-> FALSE, start |-> 0, gstart |-> 0, gend |-> 0]

\* The group and the closing quote from position p: the greedy class takes every character up
\* to the next quote, which must exist (a shorter take is followed by a
\* character of the class, never by a quote). The position of that quote, 0
\* when there is none.
ClosingQuote(d, p) ==
    LET qs == {e \in p..Len(d) : d[e] \in Quotes}
    IN  IF qs = {} THEN 0 ELSE CHOOSE e \in qs : \A x \in qs : e <= x

\* The pattern from its literal src= on matches d at position j.
TailMatches(d, j) ==
    /\ MatchLit(d, j, SrcLit)
    /\ j + 4 <= Len(d)
    /\ d[j + 4] \in Quotes
    /\ ClosingQuote(d, j + 5) # 0

\* The whole pattern anchored at position s: <iframe, then the run taking as
\* much as it can (greedy: the backtracking tries the longest take first),
\* then the tail.
MatchAt(d, s) ==
    IF ~MatchLit(d, s, TagLit) THEN NoneMatch
    ELSE LET q0 == s + Len(TagLit)
             gts == {g \in q0..Len(d) : d[g] = GT}
             lim == IF gts = {} THEN Len(d) + 1
                    ELSE CHOOSE g \in gts : \A x \in gts : g <= x
             js == {j \in q0..lim : TailMatches(d, j)}
         IN  IF js = {} THEN NoneMatch
             ELSE LET j == CHOOSE x \in js : \A y \in js : y <= x
                  IN  [found |-> TRUE, start |-> s, gstart |-> j + 5,
                       gend |-> ClosingQuote(d, j + 5)]

\* re.search: the match at the leftmost position that has one.
ReSearch(d) ==
    LET ss == {s \in 1..Len(d) : MatchAt(d, s).found}
    IN  IF ss = {} THEN NoneMatch
        ELSE MatchAt(d, CHOOSE s \in ss : \A x \in ss : s <= x)

\* match.group(1)
Group1(d, m) == SubSeq(d, m.gstart, m.gend - 1)

----------------------------------------------------------------------------
(* print *)

RECURSIVE Decimal(_)
\* str(n) of a natural number
Decimal(n) ==
    IF n < 10 THEN <<Ord["0"] + n>>
    ELSE Append(Decimal(n \div 10), Ord["0"] + (n % 10))

FileLenLabel == Str(<<"F", "i", "l", "e", " ", "l", "e", "n", ":">>)
IframeSrcLabel == Str(<<"I", "F", "R", "A", "M", "E", " ", "S", "R", "C", ":">>)
NoIframeText ==
    Str(<<"N", "o", " ", "i", "f", "r", "a", "m", "e", " ", "f", "o", "u", "n", "d", ".">>)
PreviewLabel == Str(<<"P", "r", "e", "v", "i", "e", "w", ":">>)

\* What print(a, b) writes before its newline: the two joined by a space.
Print2(a, b) == a \o <<Ord[" "]>> \o b

PreviewLen == 500

\* Mutant of Preview: the slice forgotten, the whole text printed.
PreviewWhole(t) == t

\* content[:PreviewLen]
Preview(t) == SubSeq(t, 1, IF Len(t) < PreviewLen THEN Len(t) ELSE PreviewLen)

----------------------------------------------------------------------------
(* The inputs *)

MaxBytes == 3
MaxFrags == 4

\* Bytes of arbitrary files: x, \r, \n, NUL, the high bytes of a high and of
\* a low surrogate (both lead bytes in UTF-8), a continuation byte, a lead byte.
RawBytes == {120, 13, 10, 0, 216, 220, 169, 195}

ScenarioA ==
    Str(<<"<", "d", "i", "v", ">", "<", "I", "F", "R", "A", "M", "E", " ",
          "S", "R", "C", "=", "'",
          "h", "t", "t", "p", ":", "/", "/", "e", "x", "a", "m", "p", "l", "e",
          ".", "c", "o", "m", "/", "x",
          "'", ">", "<", "/", "i", "f", "r", "a", "m", "e", ">",
          "<", "/", "d", "i", "v", ">">>)

ScenarioB ==
    Str(<<"<", "h", "t", "m", "l", ">", "<", "b", "o", "d", "y", ">",
          "n", "o", " ", "f", "r", "a", "m", "e", "s", " ", "h", "e", "r", "e",
          "<", "/", "b", "o", "d", "y", ">", "<", "/", "h", "t", "m", "l", ">">>)

\* An iframe tag of 16 characters, and the same followed by a newline.
TagDoc ==
    Str(<<"<", "i", "f", "r", "a", "m", "e", " ", "s", "r", "c", "=", "'", "x", "'", ">">>)
TagLine == TagDoc \o <<LF>>

\* A tag name written with U+0131, which re.IGNORECASE takes for an i.
DotlessDoc ==
    <<Ord["<"], 305>> \o Str(<<"f", "r", "a", "m", "e", " ", "s", "r", "c", "=", "\"", "q", "\"", ">">>)

NamedDocs == {ScenarioA, ScenarioB, TagDoc, TagLine, DotlessDoc}

Fragments ==
    { Str(<<"<", "i", "f", "r", "a", "m", "e">>),
      Str(<<"<", "I", "F", "r", "a", "m", "e">>),
      Str(<<" ", "s", "r", "c", "=">>),
      Str(<<"\"">>),
      Str(<<"'">>),
      Str(<<"U">>),
      Str(<<">">>),
      Str(<<" ", "s", "r", "c", "=", "\"", "U", "\"">>),
      Str(<<" ", "d", "a", "t", "a", "-", "s", "r", "c", "=", "'", "v", "'">>) }

Pad(n) == [i \in 1..n |-> Ord["x"]]

\* Texts around the preview length, bare and followed by markup.
LongDocs ==
    { Pad(n) \o t : n \in (PreviewLen - 1)..(PreviewLen + 1),
                    t \in {<<>>, TagDoc, Str(<<"<", "d", "i", "v", ">">>)} }

\* The texts the Scanner and the Reporter are run on.
Docs ==
    NamedDocs \cup LongDocs
    \cup { Concat(fs) : fs \in UNION {[1..k -> Fragments] : k \in 0..MaxFrags} }

\* The files the whole program is run on.
Files ==
    {[kind |-> k, bytes |-> <<>>] : k \in {"missing", "denied", "ioerror"}}
    \cup {[kind |-> "ok", bytes |-> b] :
             b \in UNION {[1..k -> RawBytes] : k \in 0..MaxBytes}}
    \cup {[kind |-> "ok", bytes |-> EncodeUtf16le(d)] : d \in NamedDocs}
    \cup {[kind |-> "ok", bytes |-> EncodeUtf8(d)] : d \in NamedDocs}

----------------------------------------------------------------------------
(* The program *)

Unbound == <<-1>>
UnboundMatch == [found |-> FALSE, start |-> -1, gstart |-> -1, gend |-> -1]

\* Mutant of IsUnicodeError: a bare except, which catches every exception.
CatchesAnything(e) == TRUE

\* except UnicodeError: the exceptions the clause of line 7 catches.
IsUnicodeError(e) == e \in {"UnicodeError", "UnicodeDecodeError"}

\* The exception open() raises on the file, "none" when it returns a handle.
OpenError(f) ==
    CASE f.kind = "missing" -> "FileNotFoundError"
      [] f.kind = "denied"  -> "PermissionError"
      [] OTHER              -> "none"

\* f.read() under the primary encoding.
ReadPrimaryResult(f) ==
    LET r == DecodeUtf16le(f.bytes)
    IN  IF f.kind = "ioerror" THEN [exc |-> "OSError", text |-> Unbound]
        ELSE IF r.ok THEN [exc |-> "none", text |-> TranslateNewlines(r.text)]
        ELSE [exc |-> "UnicodeDecodeError", text |-> Unbound]

\* Mutant of ReadSecondaryResult: errors='ignore' left out, so that bytes
\* that are not UTF-8 raise.
ReadSecondaryStrict(f) ==
    IF f.kind = "ioerror" THEN [exc |-> "OSError", text |-> Unbound]
    ELSE IF DecodeUtf8Ignore(f.bytes).ok
    THEN [exc |-> "none", text |-> TranslateNewlines(DecodeUtf8Ignore(f.bytes).text)]
    ELSE [exc |-> "UnicodeDecodeError", text |-> Unbound]

\* f.read() under the secondary encoding, errors='ignore'.
ReadSecondaryResult(f) ==
    IF f.kind = "ioerror" THEN [exc |-> "OSError", text |-> Unbound]
    ELSE [exc |-> "none",
          text |-> TranslateNewlines(DecodeUtf8Ignore(f.bytes).text)]

Init ==
    /\ file \in Files
    /\ pc = "open1"
    /\ fds = {}
    /\ exc = "none"
    /\ content = Unbound
    /\ match = UnboundMatch
    /\ stdout = <<>>
    /\ opened = <<>>

\* line 5: open('sejm_dump.html', 'r', encoding='utf-16-le') as f
OpenPrimary ==
    /\ pc = "open1"
    /\ opened' = Append(opened, "utf-16-le")
    /\ IF OpenError(file) = "none"
       THEN fds' = fds \cup {1} /\ pc' = "read1" /\ exc' = exc
       ELSE fds' = fds /\ pc' = "except" /\ exc' = OpenError(file)
    /\ UNCHANGED <<file, content, match, stdout>>

\* line 6: content = f.read()
ReadPrimary ==
    /\ pc = "read1"
    /\ LET r == ReadPrimaryResult(file)
       IN  /\ exc' = r.exc
           /\ content' = IF r.exc = "none" THEN r.text ELSE content
    /\ pc' = "exit1"
    /\ UNCHANGED <<file, fds, match, stdout, opened>>

\* Mutant of ExitPrimary: no try, the secondary read follows the primary one
\* whether or not it raised.
ExitPrimaryThenSecondary ==
    /\ pc = "exit1"
    /\ fds' = fds \ {1}
    /\ pc' = IF exc = "none" THEN "open2" ELSE "except"
    /\ UNCHANGED <<file, exc, content, match, stdout, opened>>

\* Mutant of ExitPrimary: open and close without with, so that f stays open
\* when read raises.
ExitPrimaryLeaksOnError ==
    /\ pc = "exit1"
    /\ fds' = IF exc = "none" THEN fds \ {1} ELSE fds
    /\ pc' = IF exc = "none" THEN "print_len" ELSE "except"
    /\ UNCHANGED <<file, exc, content, match, stdout, opened>>

\* leaving the with block of line 5, normally or by an exception: f is closed
ExitPrimary ==
    /\ pc = "exit1"
    /\ fds' = fds \ {1}
    /\ pc' = IF exc = "none" THEN "print_len" ELSE "except"
    /\ UNCHANGED <<file, exc, content, match, stdout, opened>>

\* line 7: except UnicodeError
ExceptUnicodeError ==
    /\ pc = "except"
    /\ IF IsUnicodeError(exc)
       THEN exc' = "none" /\ pc' = "open2"
       ELSE exc' = exc /\ pc' = "failed"
    /\ UNCHANGED <<file, fds, content, match, stdout, opened>>

\* line 8: open('sejm_dump.html', 'r', encoding='utf-8', errors='ignore') as f
OpenSecondary ==
    /\ pc = "open2"
    /\ opened' = Append(opened, "utf-8")
    /\ IF OpenError(file) = "none"
       THEN fds' = fds \cup {2} /\ pc' = "read2" /\ exc' = exc
       ELSE fds' = fds /\ pc' = "failed" /\ exc' = OpenError(file)
    /\ UNCHANGED <<file, content, match, stdout>>

\* line 9: content = f.read()
ReadSecondary ==
    /\ pc = "read2"
    /\ LET r == ReadSecondaryResult(file)
       IN  /\ exc' = r.exc
           /\ content' = IF r.exc = "none" THEN r.text ELSE content
    /\ pc' = "exit2"
    /\ UNCHANGED <<file, fds, match, stdout, opened>>

\* leaving the with block of line 8: f is closed
ExitSecondary ==
    /\ pc = "exit2"
    /\ fds' = fds \ {2}
    /\ pc' = IF exc = "none" THEN "print_len" ELSE "failed"
    /\ UNCHANGED <<file, exc, content, match, stdout, opened>>

\* line 11: print("File len:", len(content))
PrintLen ==
    /\ pc = "print_len"
    /\ stdout' = Append(stdout, Print2(FileLenLabel, Decimal(Len(content))))
    /\ pc' = "search"
    /\ UNCHANGED <<file, fds, exc, content, match, opened>>

\* lines 12-13, 15: match = re.search(...); if match: ... else: ...
Search ==
    /\ pc = "search"
    /\ match' = ReSearch(content)
    /\ pc' = IF match'.found THEN "print_src" ELSE "print_none"
    /\ UNCHANGED <<file, fds, exc, content, stdout, opened>>

\* Mutant of PrintSrc: the else of line 15 missing, so that the lines of the
\* other branch follow.
PrintSrcFallsThrough ==
    /\ pc = "print_src"
    /\ stdout' = Append(stdout, Print2(IframeSrcLabel, Group1(content, match)))
    /\ pc' = "print_none"
    /\ UNCHANGED <<file, fds, exc, content, match, opened>>

\* line 14: print("IFRAME SRC:", match.group(1))
PrintSrc ==
    /\ pc = "print_src"
    /\ stdout' = Append(stdout, Print2(IframeSrcLabel, Group1(content, match)))
    /\ pc' = "done"
    /\ UNCHANGED <<file, fds, exc, content, match, opened>>

\* line 16: print("No iframe found.")
PrintNoIframe ==
    /\ pc = "print_none"
    /\ stdout' = Append(stdout, NoIframeText)
    /\ pc' = "print_preview"
    /\ UNCHANGED <<file, fds, exc, content, match, opened>>

\* line 17: print("Preview:", content[:500])
PrintPreview ==
    /\ pc = "print_preview"
    /\ stdout' = Append(stdout, Print2(PreviewLabel, Preview(content)))
    /\ pc' = "done"
    /\ UNCHANGED <<file, fds, exc, content, match, opened>>

Next ==
    \/ OpenPrimary
    \/ ReadPrimary
    \/ ExitPrimary
    \/ ExceptUnicodeError
    \/ OpenSecondary
    \/ ReadSecondary
    \/ ExitSecondary
    \/ PrintLen
    \/ Search
    \/ PrintSrc
    \/ PrintNoIframe
    \/ PrintPreview

Spec == Init /\ [][Next]_vars

\* The Scanner and the Reporter (lines 11-17) on a given text: the state the
\* Loader leaves after reading the UTF-16-LE file of that text.
ScanInit ==
    /\ content \in Docs
    /\ file = [kind |-> "ok", bytes |-> EncodeUtf16le(content)]
    /\ ReadPrimaryResult(file) = [exc |-> "none", text |-> content]
    /\ pc = "print_len"
    /\ fds = {}
    /\ exc = "none"
    /\ match = UnboundMatch
    /\ stdout = <<>>
    /\ opened = <<"utf-16-le">>

ScanNext ==
    \/ PrintLen
    \/ Search
    \/ PrintSrc
    \/ PrintNoIframe
    \/ PrintPreview

ScanSpec == ScanInit /\ [][ScanNext]_vars

----------------------------------------------------------------------------
(* Properties *)

AfterLoader == {"print_len", "search", "print_src", "print_none", "print_preview", "done"}
AfterSearch == {"print_src", "print_none", "print_preview", "done"}

\* The statements in the order the interpreter can reach them; a statement
\* other than the two ends has one step, whose guard is the statement alone.
Rank(p) ==
    CASE p = "open1" -> 1 [] p = "read1" -> 2 [] p = "exit1" -> 3
      [] p = "except" -> 4 [] p = "open2" -> 5 [] p = "read2" -> 6
      [] p = "exit2" -> 7 [] p = "print_len" -> 8 [] p = "search" -> 9
      [] p = "print_src" -> 10 [] p = "print_none" -> 10
      [] p = "print_preview" -> 11 [] p = "done" -> 12 [] p = "failed" -> 12

\* Every step moves forward, so a run takes at most eleven steps and ends
\* in done or failed.
Advances == Rank(pc') > Rank(pc)

IsPrefix(a, b) == Len(a) <= Len(b) /\ SubSeq(b, 1, Len(a)) = a

\* The primary decoding raises on the file's bytes.
PrimaryFails == file.kind = "ok" /\ ~DecodeUtf16le(file.bytes).ok
PrimaryDecodes == file.kind = "ok" /\ DecodeUtf16le(file.bytes).ok

\* An HTML reading of the text, for the properties that speak of well-formed
\* tags: an iframe start tag is <iframe (either case of each letter), then
\* attributes name=QvalueQ with Q one quote character and value free of Q,
\* each preceded by white space, then >.
WhiteSpace == {Ord[" "], LF, CR, 9}

AsciiEq(p, c) == c = p \/ (p >= Ord["a"] /\ p <= Ord["z"] /\ c = p - 32)

AsciiLitAt(d, p, lit) ==
    /\ p + Len(lit) - 1 <= Len(d)
    /\ \A k \in 1..Len(lit) : AsciiEq(lit[k], d[p + k - 1])

IsNameChar(c) ==
    c \notin WhiteSpace \cup Quotes \cup {GT, Ord["="], Ord["<"], Ord["/"]}

\* The least position from p on whose character satisfies Stop, Len(d) + 1
\* when there is none.
FirstFrom(d, p, Stop(_)) ==
    LET xs == {e \in p..Len(d) : Stop(d[e])}
    IN  IF xs = {} THEN Len(d) + 1 ELSE CHOOSE e \in xs : \A x \in xs : e <= x

RECURSIVE ParseAttrs(_, _, _)
\* The attributes from position p (just after the tag name, or after an
\* attribute) up to the closing >; ok is FALSE when the tag is malformed.
ParseAttrs(d, p, acc) ==
    LET q == FirstFrom(d, p, LAMBDA c : c \notin WhiteSpace)
        n == FirstFrom(d, q, LAMBDA c : ~IsNameChar(c))
        bad == [ok |-> FALSE, attrs |-> <<>>]
    IN  IF q > Len(d) THEN bad
        ELSE IF d[q] = GT THEN [ok |-> TRUE, attrs |-> acc]
        ELSE IF q = p \/ n = q \/ n + 1 > Len(d) THEN bad
        ELSE IF d[n] # Ord["="] \/ d[n + 1] \notin Quotes THEN bad
        ELSE LET close == FirstFrom(d, n + 2, LAMBDA c : c = d[n + 1])
             IN  IF close > Len(d) THEN bad
                 ELSE ParseAttrs(d, close + 1,
                          Append(acc, [name |-> SubSeq(d, q, n - 1),
                                       value |-> SubSeq(d, n + 2, close - 1)]))

IsSrcName(nm) == Len(nm) = 3 /\ AsciiLitAt(nm, 1, Str(<<"s", "r", "c">>))

\* The attributes of the well-formed iframe tag that starts at s, if one does.
TagAttrs(d, s) ==
    IF AsciiLitAt(d, s, TagLit) THEN ParseAttrs(d, s + Len(TagLit), <<>>)
    ELSE [ok |-> FALSE, attrs |-> <<>>]

HasSrcTagAt(d, s) ==
    /\ TagAttrs(d, s).ok
    /\ \E i \in 1..Len(TagAttrs(d, s).attrs) : IsSrcName(TagAttrs(d, s).attrs[i].name)

SrcTagStarts(d) == {s \in 1..Len(d) : HasSrcTagAt(d, s)}

\* The src value of the first well-formed iframe tag that has one.
FirstTagSrc(d) ==
    LET s == CHOOSE x \in SrcTagStarts(d) : \A y \in SrcTagStarts(d) : x <= y
        as == TagAttrs(d, s).attrs
        i == CHOOSE x \in 1..Len(as) :
                 /\ IsSrcName(as[x].name)
                 /\ \A y \in 1..(x - 1) : ~IsSrcName(as[y].name)
    IN  as[i].value

\* C1: whenever the text holds a well-formed iframe tag with a src
\* attribute, the search matches and its group is the src value of the first
\* such tag.
C1_FirstTagSrcReturned ==
    (pc \in AfterSearch /\ SrcTagStarts(content) # {}) =>
        (match.found /\ Group1(content, match) = FirstTagSrc(content))

C2_State ==
    /\ ~(pc = "failed" /\ IsUnicodeError(exc))
    /\ PrimaryFails =>
        /\ pc # "failed"
        /\ pc \in AfterLoader =>
            /\ content = TranslateNewlines(DecodeUtf8Ignore(file.bytes).text)
            /\ opened = <<"utf-16-le", "utf-8">>
        /\ pc \in AfterLoader \ {"print_len"} =>
            /\ Len(stdout) >= 1
            /\ stdout[1] = Print2(FileLenLabel, Decimal(Len(content)))

\* C2: when the primary decoding of a readable file raises, the handler
\* catches it, the document is the UTF-8 decoding with invalid bytes
\* dropped, no UnicodeError ever ends the run, and the run, which only moves
\* forward and cannot end failed, prints the File len line before it ends.
C2_FallbackRecovers == []C2_State /\ [][Advances]_vars

C2_Witness ==
    /\ pc = "done"
    /\ PrimaryFails
    /\ ~DecodeUtf8Ignore(file.bytes).ok
    /\ Len(content) > 0

\* C3: when the primary decoding succeeds the secondary open and read never
\* run, and the document is the primary decoding.
C3_NoFallbackWhenPrimaryDecodes ==
    PrimaryDecodes =>
        /\ \A i \in 1..Len(opened) : opened[i] # "utf-8"
        /\ 2 \notin fds
        /\ pc \notin {"except", "open2", "read2", "exit2"}
        /\ pc \in AfterLoader =>
               content = TranslateNewlines(DecodeUtf16le(file.bytes).text)

C3_Witness ==
    /\ pc = "done"
    /\ PrimaryDecodes
    /\ Len(content) > 0
    /\ DecodeUtf8Ignore(file.bytes).text # content

C4_State ==
    file.kind \in {"missing", "denied"} =>
        /\ stdout = <<>>
        /\ fds = {}
        /\ \A i \in 1..Len(opened) : opened[i] # "utf-8"
        /\ pc \in {"open1", "except", "failed"}
        /\ pc = "failed" => exc = OpenError(file)

\* C4: when the file is missing or cannot be opened, the handler does not
\* catch the failure, the secondary open is not attempted, nothing is
\* printed, and the run, moving forward through open1 and except only, ends
\* failed with the exception of the open.
C4_OpenFailurePropagates == []C4_State /\ [][Advances]_vars

C4_Witness ==
    /\ pc = "failed"
    /\ file.kind = "missing"
    /\ exc = "FileNotFoundError"

\* The text holds no <iframe, in the case-insensitive sense of the search.
NoFrameTag(d) == \A p \in 1..Len(d) : ~MatchLit(d, p, TagLit)

ScenarioASrcLine ==
    Str(<<"I", "F", "R", "A", "M", "E", " ", "S", "R", "C", ":", " ",
          "h", "t", "t", "p", ":", "/", "/", "e", "x", "a", "m", "p", "l", "e",
          ".", "c", "o", "m", "/", "x">>)

\* C6, as stated: on the text of Scenario A the output is File len: 57, then
\* IFRAME SRC: http://example.com/x.
C6_ScenarioA_Len57 ==
    (pc = "done" /\ content = ScenarioA) =>
        stdout = << Str(<<"F", "i", "l", "e", " ", "l", "e", "n", ":", " ", "5", "7">>),
                    ScenarioASrcLine >>

\* C6, amended: on the text of Scenario A the output is File len: 55, then
\* IFRAME SRC: http://example.com/x.
C6_ScenarioA_Len55 ==
    (pc = "done" /\ content = ScenarioA) =>
        stdout = << Str(<<"F", "i", "l", "e", " ", "l", "e", "n", ":", " ", "5", "5">>),
                    ScenarioASrcLine >>

C6_Witness ==
    /\ pc = "done"
    /\ content = ScenarioA
    /\ Len(stdout) = 2

\* C7: a file of well-formed UTF-8 is handed to the Scanner as its UTF-8
\* decoding.
C7_Utf8FileReadAsUtf8 ==
    (file.kind = "ok" /\ DecodeUtf8Ignore(file.bytes).ok /\ pc \in AfterLoader) =>
        content = TranslateNewlines(DecodeUtf8Ignore(file.bytes).text)

\* C8: the group of a match stands between two equal quote characters and
\* holds no quote character.
C8_MatchingQuotes ==
    (pc \in AfterSearch /\ match.found) =>
        /\ match.gstart > 1
        /\ match.gend <= Len(content)
        /\ content[match.gstart - 1] \in Quotes
        /\ content[match.gend] = content[match.gstart - 1]
        /\ \A i \in match.gstart..(match.gend - 1) : content[i] \notin Quotes

\* C9: at most one handle is open at any time; the first is closed before
\* the second open; none is open once the Loader is done, once anything is
\* printed, or when the run has ended.
C9_HandlesScoped ==
    /\ Cardinality(fds) <= 1
    /\ pc \in {"except", "open2"} => fds = {}
    /\ pc \in AfterLoader \cup {"failed"} => fds = {}
    /\ stdout # <<>> => fds = {}

C9_Witness ==
    /\ pc = "read2"
    /\ fds = {2}
    /\ opened = <<"utf-16-le", "utf-8">>

HasLabel(line, label) == IsPrefix(label \o <<Ord[" "]>>, line)

C10_State ==
    /\ pc \in AfterLoader => exc = "none"
    /\ pc \notin AfterLoader => stdout = <<>>
    /\ pc \in AfterLoader \ {"print_len"} =>
        /\ Len(stdout) >= 1
        /\ stdout[1] = Print2(FileLenLabel, Decimal(Len(content)))
    /\ match # UnboundMatch => Len(stdout) >= 1
    /\ \A i \in 2..Len(stdout) : ~HasLabel(stdout[i], FileLenLabel)
    /\ pc = "done" =>
        /\ exc = "none"
        /\ \/ /\ Len(stdout) = 2
              /\ match.found
              /\ stdout[2] = Print2(IframeSrcLabel,
                                 SubSeq(content, match.gstart, match.gend - 1))
           \/ /\ Len(stdout) = 3
              /\ ~match.found
              /\ stdout[2] = NoIframeText
              /\ HasLabel(stdout[3], PreviewLabel)

\* C10: the output starts with one File len line giving the length of the
\* document, printed before the search; it goes on with either one IFRAME
\* SRC line or No iframe found. and a Preview line, never both; and the run,
\* which only moves forward and cannot fail once the Loader is done, ends
\* without an exception.
C10_OutputShape == []C10_State /\ [][Advances]_vars

C10_Witness ==
    /\ pc = "done"
    /\ Len(stdout) = 2
    /\ opened = <<"utf-16-le", "utf-8">>

====
